---- MODULE Spec2Model ----
(***************************************************************************)
(* Model of LoggerCSV (core/sd_logger.py): a CSV logger that buffers text  *)
(* records in memory and appends them to one file on a mounted SD card.    *)
(*                                                                         *)
(* Text is modelled as a sequence of one-character strings, so joining,    *)
(* newline framing and reading the file back line by line are computed.    *)
(* A public call is a frame (op, self, record, pc, result) of a task; the  *)
(* buffered write and the teardown run through the steps of the code       *)
(* (append, capacity test, serialize-and-clear, open-and-write).           *)
(***************************************************************************)
EXTENDS Integers, Sequences, FiniteSets, TLC

\* ---------------------------------------------------------------- bounds
MaxCalls == 4
MaxFailures == 1
MaxCap == 3

\* ---------------------------------------------------------------- inputs
NL == "\n"
delimiter == <<";">>
None == [is_none |-> TRUE, columns |-> <<>>]
Columns(names) == [is_none |-> FALSE, columns |-> names]
Tasks == {"T1", "T2"}
Loggers == {"L1", "L2"}
MountPoints == {"sd", "nosd"}
Capacities == 1..MaxCap
DegenerateCapacities == {-1, 0, 1}
Records == {<<"a">>, <<"b">>, <<"a", NL, "b">>}
HeaderChoices == {None, Columns(<<<<"h">>, <<"g">>>>)}
NoFile == [exists |-> FALSE, data |-> <<>>]
OldFile == [exists |-> TRUE, data |-> <<"x", NL>>]

VARIABLES
    mounted,            \* the SD card is mounted at "sd"
    file,               \* the file sd/<file_name>: [exists, data]
    alive,              \* logger -> the instance has been constructed
    sd_mountpoint,      \* logger -> self.sd_mountpoint
    csv_headers,        \* logger -> self.csv_headers
    buffer_size,        \* logger -> self.buffer_size
    buffer,             \* logger -> self.buffer
    pc,                 \* task -> position inside the running call
    frame,              \* task -> the running / last call
    submitted,          \* logger -> records passed to write_record_with_buffer
    base,               \* logger -> file data when the instance was constructed
    closed,             \* logger -> __del__ has run on the instance
    direct,             \* number of write_record calls so far
    calls,              \* number of public calls so far
    failures,           \* number of storage failures so far
    handles,            \* number of file handles that are open
    log,                \* logger -> the write calls on it, in call order
    writers             \* the <<logger, operation>> pairs that opened the file

vars == <<mounted, file, alive, sd_mountpoint, csv_headers, buffer_size,
          buffer, pc, frame, submitted, base, closed, direct, calls, failures,
          handles, log, writers>>

\* ------------------------------------------------------- pure functions
RECURSIVE join(_, _)
\* str.join: the items separated by sep
join(sep, items) ==
    IF Len(items) = 0 THEN <<>>
    ELSE IF Len(items) = 1 THEN items[1]
    ELSE items[1] \o sep \o join(sep, Tail(items))

\* _validate_record: "\n" in record
HasNewline(record) == \E i \in 1..Len(record) : record[i] = NL

\* os.stat(path) succeeds
Stat(mountpoint) == mountpoint = "sd" /\ mounted

\* the frame of a call: its arguments, its local serialized_buffer, its
\* outcome, and the state the call started from
NoFrame == [op |-> "none", self |-> "L1", record |-> <<>>, result |-> "none",
            mountpoint |-> "sd", headers |-> None, stat0 |-> FALSE,
            file0 |-> NoFile, buffer0 |-> <<>>, closed0 |-> FALSE,
            failures0 |-> 0, flushed |-> FALSE,
            pending |-> <<>>, serialized |-> <<>>]

Call(o, l, r) ==
    [NoFrame EXCEPT !.op = o, !.self = l, !.record = r, !.result = "running",
                    !.mountpoint = sd_mountpoint[l], !.headers = csv_headers[l],
                    !.stat0 = Stat(sd_mountpoint[l]),
                    !.file0 = file, !.buffer0 = buffer[l],
                    !.closed0 = closed[l], !.failures0 = failures]

Idle == \A t \in Tasks : pc[t] = "idle"

\* the bound on a run: every call and every storage failure counts
CanCall == calls + failures < MaxCalls

\* with open(self.file_path, mode) as file: file.write(data)
\* The outcomes of one open-write-close: the open fails (nothing changes,
\* no handle), the write fails after part of the data, or all of the data
\* is written.
OpenWrite(mountpoint, mode, data) ==
    LET old == IF mode = "w" THEN <<>> ELSE file.data IN
    IF ~Stat(mountpoint)
    THEN {[file |-> file, result |-> "OSError", injected |-> 0, opened |-> 0]}
    ELSE {[file |-> [exists |-> TRUE, data |-> old \o data],
           result |-> "ok", injected |-> 0, opened |-> 1]}
         \cup (IF failures < MaxFailures
               THEN {[file |-> file, result |-> "OSError", injected |-> 1,
                      opened |-> 0]}
                    \cup {[file |-> [exists |-> TRUE,
                                     data |-> old \o SubSeq(data, 1, k)],
                           result |-> "OSError", injected |-> 1,
                           opened |-> 1] :
                          k \in 0..(Len(data) - 1)}
               ELSE {})

with_exit_leaks_on_error(opened, result) ==
    IF result = "OSError" THEN opened ELSE 0

\* the end of a with block: the handle it opened is closed, whether the
\* body raised or not; the value is the number of handles left open
with_exit(opened, result) == 0

raised_swallowed(result) == "ok"

\* no try/except around the with blocks: what open or write raised is what
\* the call raises
raised(result) == result

append_mode_truncates == "w"

\* open(self.file_path, mode="a")
append_mode == "a"

Init ==
    /\ mounted = FALSE
    /\ file \in {NoFile, OldFile}
    /\ alive = [l \in Loggers |-> FALSE]
    /\ sd_mountpoint = [l \in Loggers |-> "sd"]
    /\ csv_headers = [l \in Loggers |-> None]
    /\ buffer_size = [l \in Loggers |-> 1]
    /\ buffer = [l \in Loggers |-> <<>>]
    /\ pc = [t \in Tasks |-> "idle"]
    /\ frame = [t \in Tasks |-> NoFrame]
    /\ submitted = [l \in Loggers |-> <<>>]
    /\ base = [l \in Loggers |-> <<>>]
    /\ closed = [l \in Loggers |-> FALSE]
    /\ direct = 0
    /\ calls = 0
    /\ failures = 0
    /\ handles = 0
    /\ log = [l \in Loggers |-> <<>>]
    /\ writers = {}

\* uos.mount(vfs, "/sd"): the external collaborator mounts the card
Mount ==
    /\ ~mounted
    /\ Idle
    /\ mounted' = TRUE
    /\ UNCHANGED <<file, alive, sd_mountpoint, csv_headers, buffer_size,
                   buffer, pc, frame, submitted, base, closed, direct, calls,
                   failures, handles, log, writers>>

_verify_sd_mounted_never_raises(mountpoint) == TRUE

\* os.stat(self.sd_mountpoint) does not raise
_verify_sd_mounted(mountpoint) == Stat(mountpoint)

_file_exists_never(mountpoint) == FALSE

\* os.stat(self.file_path) does not raise
_file_exists(mountpoint) == Stat(mountpoint) /\ file.exists

\* self.delimiter.join(self.csv_headers) + "\n"
HeaderLine(headers) == join(delimiter, headers.columns) \o <<NL>>

\* LoggerCSV(file_name, sd_mountpoint, buffer_size, csv_headers)
__init__(t, l, mountpoint, size, headers) ==
    /\ Idle
    /\ CanCall
    /\ ~alive[l]
    /\ l = "L2" => alive["L1"]
    /\ calls' = calls + 1
    /\ LET f == [NoFrame EXCEPT !.op = "__init__", !.self = l,
                                !.mountpoint = mountpoint,
                                !.headers = headers,
                                !.stat0 = Stat(mountpoint),
                                !.file0 = file, !.failures0 = failures]
           outcomes ==
               IF ~_verify_sd_mounted(mountpoint)
               THEN {[file |-> file, result |-> "SDNotMountedError",
                      injected |-> 0, opened |-> 0]}
               ELSE IF _file_exists(mountpoint) \/ headers = None
               THEN {[file |-> file, result |-> "ok", injected |-> 0,
                      opened |-> 0]}
               ELSE OpenWrite(mountpoint, "w", HeaderLine(headers))
       IN \E o \in outcomes :
            /\ file' = o.file
            /\ failures' = failures + o.injected
            /\ handles' = handles + with_exit(o.opened, o.result)
            /\ writers' = IF o.opened = 1
                          THEN writers \cup {<<l, "__init__">>}
                          ELSE writers
            /\ frame' = [frame EXCEPT ![t] =
                            [f EXCEPT !.result = raised(o.result)]]
            /\ IF o.result = "ok"
               THEN /\ alive' = [alive EXCEPT ![l] = TRUE]
                    /\ sd_mountpoint' = [sd_mountpoint EXCEPT ![l] = mountpoint]
                    /\ csv_headers' = [csv_headers EXCEPT ![l] = headers]
                    /\ buffer_size' = [buffer_size EXCEPT ![l] = size]
                    /\ buffer' = [buffer EXCEPT ![l] = <<>>]
                    /\ base' = [base EXCEPT ![l] = o.file.data]
                    /\ closed' = [closed EXCEPT ![l] = FALSE]
                    /\ submitted' = [submitted EXCEPT ![l] = <<>>]
                    /\ log' = [log EXCEPT ![l] = <<>>]
               ELSE UNCHANGED <<alive, sd_mountpoint, csv_headers,
                                buffer_size, buffer, base, closed, submitted,
                                log>>
    /\ UNCHANGED <<mounted, pc, direct>>

_buffer_full_gt(l) == Len(buffer[l]) > buffer_size[l]

_buffer_full_eq(l) == Len(buffer[l]) = buffer_size[l]

\* len(self.buffer) >= self.buffer_size
_buffer_full(l) == Len(buffer[l]) >= buffer_size[l]

\* write_record_with_buffer(record): self._add_record_to_buffer(record)
write_record_with_buffer(t, l, record) ==
    /\ pc[t] = "idle"
    /\ CanCall
    /\ alive[l]
    /\ calls' = calls + 1
    /\ frame' = [frame EXCEPT ![t] = Call("write_record_with_buffer", l, record)]
    /\ buffer' = [buffer EXCEPT ![l] = Append(@, record)]
    /\ submitted' = [submitted EXCEPT ![l] = Append(@, record)]
    /\ log' = [log EXCEPT ![l] =
                  Append(@, [kind |-> "buffered", record |-> record,
                             pending |-> Len(buffer[l])])]
    /\ pc' = [pc EXCEPT ![t] = "buffer_full"]
    /\ UNCHANGED <<mounted, file, alive, sd_mountpoint, csv_headers,
                   buffer_size, base, closed, direct, failures, handles,
                   writers>>

\* write_record_with_buffer: if self._buffer_full(): ... ; gc.collect()
if_buffer_full(t) ==
    /\ pc[t] = "buffer_full"
    /\ IF _buffer_full(frame[t].self)
       THEN /\ pc' = [pc EXCEPT ![t] = "serialize"]
            /\ UNCHANGED frame
       ELSE /\ pc' = [pc EXCEPT ![t] = "idle"]
            /\ frame' = [frame EXCEPT ![t].result = "ok"]
    /\ UNCHANGED <<mounted, file, alive, sd_mountpoint, csv_headers,
                   buffer_size, buffer, submitted, base, closed, direct,
                   calls, failures, handles, log, writers>>

Serialized_no_final_newline(records) == join(<<NL>>, records)

\* "\n".join(self.buffer) + "\n"
Serialized(records) == join(<<NL>>, records) \o <<NL>>

cleared_keeps(records) == records

\* self.buffer.clear()
cleared(records) == <<>>

\* _write_buffer_to_file: serialized_buffer = self._serialize_buffer()
_serialize_buffer(t) ==
    /\ pc[t] = "serialize"
    /\ LET l == frame[t].self IN
        /\ frame' = [frame EXCEPT ![t].serialized = Serialized(buffer[l]),
                                  ![t].pending = buffer[l],
                                  ![t].flushed = TRUE]
        /\ buffer' = [buffer EXCEPT ![l] = cleared(@)]
    /\ pc' = [pc EXCEPT ![t] = "write"]
    /\ UNCHANGED <<mounted, file, alive, sd_mountpoint, csv_headers,
                   buffer_size, submitted, base, closed, direct, calls,
                   failures, handles, log, writers>>

\* _write_buffer_to_file: with open(self.file_path, mode="a") ...: write
_write_buffer_to_file(t) ==
    /\ pc[t] = "write"
    /\ \E o \in OpenWrite(sd_mountpoint[frame[t].self], append_mode,
                          frame[t].serialized) :
        /\ file' = o.file
        /\ failures' = failures + o.injected
        /\ handles' = handles + with_exit(o.opened, o.result)
        /\ writers' = IF o.opened = 1
                      THEN writers \cup {<<frame[t].self, "flush">>}
                      ELSE writers
        /\ frame' = [frame EXCEPT ![t].result = raised(o.result)]
    /\ pc' = [pc EXCEPT ![t] = "idle"]
    /\ UNCHANGED <<mounted, alive, sd_mountpoint, csv_headers, buffer_size,
                   buffer, submitted, base, closed, direct, calls, log>>

Line_no_newline(record) == record

\* write_record: record + "\n"
Line(record) == record \o <<NL>>

\* write_record(record)
write_record(t, l, record) ==
    /\ Idle
    /\ CanCall
    /\ alive[l]
    /\ calls' = calls + 1
    /\ direct' = direct + 1
    /\ log' = [log EXCEPT ![l] =
                  Append(@, [kind |-> "direct", record |-> record,
                             pending |-> Len(buffer[l])])]
    /\ \E o \in OpenWrite(sd_mountpoint[l], append_mode, Line(record)) :
        /\ file' = o.file
        /\ failures' = failures + o.injected
        /\ handles' = handles + with_exit(o.opened, o.result)
        /\ writers' = IF o.opened = 1
                      THEN writers \cup {<<l, "write_record">>}
                      ELSE writers
        /\ frame' = [frame EXCEPT ![t] =
                        [Call("write_record", l, record) EXCEPT
                            !.result = raised(o.result)]]
    /\ UNCHANGED <<mounted, alive, sd_mountpoint, csv_headers, buffer_size,
                   buffer, pc, submitted, base, closed>>

buffer_not_empty_always(l) == TRUE

buffer_not_empty_negated(l) == buffer[l] = <<>>

\* __del__: if self.buffer
buffer_not_empty(l) == buffer[l] # <<>>

\* __del__: if self.buffer: self._write_buffer_to_file()
__del__(t, l) ==
    /\ Idle
    /\ CanCall
    /\ alive[l]
    /\ calls' = calls + 1
    /\ closed' = [closed EXCEPT ![l] = TRUE]
    /\ IF buffer_not_empty(l)
       THEN /\ pc' = [pc EXCEPT ![t] = "serialize"]
            /\ frame' = [frame EXCEPT ![t] = Call("__del__", l, <<>>)]
       ELSE /\ pc' = pc
            /\ frame' = [frame EXCEPT ![t] =
                            [Call("__del__", l, <<>>) EXCEPT !.result = "ok"]]
    /\ UNCHANGED <<mounted, file, alive, sd_mountpoint, csv_headers,
                   buffer_size, buffer, submitted, base, direct, failures,
                   handles, log, writers>>

Construct ==
    \E l \in Loggers, mountpoint \in MountPoints, size \in Capacities,
       headers \in HeaderChoices : __init__("T1", l, mountpoint, size, headers)

WriteBuffered ==
    /\ Idle
    /\ \E l \in Loggers, record \in Records :
           write_record_with_buffer("T1", l, record)

WriteDirect == \E l \in Loggers, record \in Records : write_record("T1", l, record)

Teardown == \E l \in Loggers : __del__("T1", l)

Next ==
    \/ Mount
    \/ Construct
    \/ WriteBuffered
    \/ \E t \in Tasks : if_buffer_full(t)
    \/ \E t \in Tasks : _serialize_buffer(t)
    \/ \E t \in Tasks : _write_buffer_to_file(t)
    \/ WriteDirect
    \/ Teardown

Spec == Init /\ [][Next]_vars

\* ------------------------------- loggers of capacity 1, 0 and below
\* LoggerCSV(..., buffer_size=size): buffer_size is not validated
ConstructDegenerate ==
    \E l \in Loggers, mountpoint \in MountPoints,
       size \in DegenerateCapacities, headers \in HeaderChoices :
        __init__("T1", l, mountpoint, size, headers)

NextDegenerate ==
    \/ Mount
    \/ ConstructDegenerate
    \/ WriteBuffered
    \/ \E t \in Tasks : if_buffer_full(t)
    \/ \E t \in Tasks : _serialize_buffer(t)
    \/ \E t \in Tasks : _write_buffer_to_file(t)
    \/ WriteDirect
    \/ Teardown

SpecDegenerate == Init /\ [][NextDegenerate]_vars

\* ------------------------------------------- two producers on one logger
\* _serialize_buffer: buffer_serialized = "\n".join(self.buffer) + "\n"
serialize_join(t) ==
    /\ pc[t] = "serialize"
    /\ frame' = [frame EXCEPT
                    ![t].serialized = Serialized(buffer[frame[t].self]),
                    ![t].pending = buffer[frame[t].self],
                    ![t].flushed = TRUE]
    /\ pc' = [pc EXCEPT ![t] = "clear"]
    /\ UNCHANGED <<mounted, file, alive, sd_mountpoint, csv_headers,
                   buffer_size, buffer, submitted, base, closed, direct,
                   calls, failures, handles, log, writers>>

\* _serialize_buffer: self.buffer.clear()
serialize_clear(t) ==
    /\ pc[t] = "clear"
    /\ buffer' = [buffer EXCEPT ![frame[t].self] = cleared(@)]
    /\ pc' = [pc EXCEPT ![t] = "write"]
    /\ UNCHANGED <<mounted, file, alive, sd_mountpoint, csv_headers,
                   buffer_size, frame, submitted, base, closed, direct,
                   calls, failures, handles, log, writers>>

\* the logger both tasks share, constructed before they start
ConstructShared ==
    \E size \in Capacities, headers \in HeaderChoices :
        /\ __init__("T1", "L1", "sd", size, headers)
        /\ failures' = failures

\* either task calls write_record_with_buffer while the other may be
\* inside its own call
Produce ==
    \E t \in Tasks, record \in {<<"a">>, <<"b">>} :
        write_record_with_buffer(t, "L1", record)

\* the steps of the two calls interleave; storage does not fail
NextTasks ==
    \/ Mount
    \/ ConstructShared
    \/ Produce
    \/ \E t \in Tasks : if_buffer_full(t)
    \/ \E t \in Tasks : serialize_join(t)
    \/ \E t \in Tasks : serialize_clear(t)
    \/ \E t \in Tasks : _write_buffer_to_file(t) /\ failures' = failures

SpecTasks == Init /\ [][NextTasks]_vars

\* ------------------------------------------------ vocabulary of the claims
RECURSIVE SplitFrom(_, _, _)
\* the lines of a text: every newline ends a line, a rest without a
\* newline is a last line
SplitFrom(text, i, cur) ==
    IF i > Len(text) THEN (IF cur = <<>> THEN <<>> ELSE <<cur>>)
    ELSE IF text[i] = NL THEN <<cur>> \o SplitFrom(text, i + 1, <<>>)
    ELSE SplitFrom(text, i + 1, Append(cur, text[i]))

ReadLines(text) == SplitFrom(text, 1, <<>>)

RECURSIVE Flat(_)
\* every record followed by one newline, in order
Flat(records) ==
    IF records = <<>> THEN <<>>
    ELSE Head(records) \o <<NL>> \o Flat(Tail(records))

IsPrefix(a, b) == Len(a) <= Len(b) /\ SubSeq(b, 1, Len(a)) = a

Drop(a, n) == SubSeq(a, n + 1, Len(a))

RECURSIVE IsSubseq(_, _)
\* the elements of a occur in b in the same order
IsSubseq(a, b) ==
    IF a = <<>> THEN TRUE
    ELSE IF b = <<>> THEN FALSE
    ELSE IF Head(a) = Head(b) THEN IsSubseq(Tail(a), Tail(b))
    ELSE IsSubseq(a, Tail(b))

\* task t is between calls and its last call was o
Returned(t, o) == pc[t] = "idle" /\ frame[t].op = o

\* l is the only logger there is, it has been written through the buffer
\* only, and no storage operation has failed
OnlyBuffered(l) ==
    /\ alive[l]
    /\ failures = 0
    /\ direct = 0
    /\ \A m \in Loggers \ {l} : ~alive[m]

\* the lines the file got since l was constructed
DataLines(l) == ReadLines(Drop(file.data, Len(base[l])))

\* C1: with capacity >= 1, no failure and only buffered writes of one
\* logger, between calls the data lines of the file followed by the records
\* in the buffer are the submitted records in call order.
C1_FlushBoundaryInvisible ==
    \A l \in Loggers :
        (Idle /\ OnlyBuffered(l) /\ buffer_size[l] >= 1) =>
            /\ IsPrefix(base[l], file.data)
            /\ DataLines(l) \o buffer[l] = submitted[l]

\* C1 for records without a newline: the same statement holds.
C1_NewlineFree ==
    \A l \in Loggers :
        (/\ Idle /\ OnlyBuffered(l) /\ buffer_size[l] >= 1
         /\ \A i \in 1..Len(submitted[l]) : ~HasNewline(submitted[l][i])) =>
            /\ IsPrefix(base[l], file.data)
            /\ DataLines(l) \o buffer[l] = submitted[l]

\* C1 on the file's text: what the file got followed by the buffered
\* records, each ended by a newline, is the submitted records each ended
\* by a newline, wherever the flushes fell.
C1_TextInvisible ==
    \A l \in Loggers :
        (Idle /\ OnlyBuffered(l) /\ buffer_size[l] >= 1) =>
            /\ IsPrefix(base[l], file.data)
            /\ Drop(file.data, Len(base[l])) \o Flat(buffer[l])
                   = Flat(submitted[l])

\* C2: with capacity >= 1 the buffer never holds more records than the
\* capacity; it holds exactly the capacity only inside a
\* write_record_with_buffer call that is about to flush; when that call
\* returns the buffer is below the capacity, and empty if the call flushed.
C2_BufferOccupancy ==
    \A l \in Loggers :
        (alive[l] /\ buffer_size[l] >= 1) =>
            /\ Len(buffer[l]) <= buffer_size[l]
            /\ Len(buffer[l]) = buffer_size[l] =>
                   \E t \in Tasks :
                       /\ frame[t].op = "write_record_with_buffer"
                       /\ frame[t].self = l
                       /\ pc[t] \in {"buffer_full", "serialize"}
            /\ \A t \in Tasks :
                   (Returned(t, "write_record_with_buffer")
                    /\ frame[t].self = l) =>
                       /\ Len(buffer[l]) < buffer_size[l]
                       /\ frame[t].flushed => buffer[l] = <<>>

C2_Witness ==
    \E t \in Tasks :
        /\ pc[t] = "serialize"
        /\ frame[t].op = "write_record_with_buffer"
        /\ buffer_size[frame[t].self] = 2
        /\ Len(buffer[frame[t].self]) = 2

\* C3: after a flush whose open or write failed, the records that were
\* pending when the flush started are still in the buffer, in order.
C3_FailedFlushKeepsBuffer ==
    \A t \in Tasks :
        (pc[t] = "idle" /\ frame[t].flushed /\ frame[t].result = "OSError") =>
            buffer[frame[t].self] = frame[t].pending

\* C4: a construction that returns has written the header line as the whole
\* file exactly when headers were given and the file did not exist; any
\* construction over an existing file leaves the file as it was.
C4_HeaderExactlyWhenNeeded ==
    \A t \in Tasks :
        Returned(t, "__init__") =>
            /\ frame[t].result = "ok" =>
                   IF ~frame[t].headers.is_none /\ ~frame[t].file0.exists
                   THEN file = [exists |-> TRUE,
                                data |-> join(delimiter,
                                              frame[t].headers.columns)
                                         \o <<NL>>]
                   ELSE file = frame[t].file0
            /\ frame[t].file0.exists => file = frame[t].file0

C4_Witness ==
    \E t \in Tasks :
        /\ Returned(t, "__init__")
        /\ frame[t].result = "ok"
        /\ frame[t].self = "L2"
        /\ ~frame[t].headers.is_none
        /\ csv_headers["L1"] = frame[t].headers
        /\ frame[t].file0.exists
        /\ file.data = <<"h", ";", "g", NL, "a", NL>>

\* C5: a write of a record with an embedded newline, buffered or direct,
\* fails with the invalid-record error and changes neither file nor buffer.
C5_NewlineRejected ==
    \A t \in Tasks :
        (/\ pc[t] = "idle"
         /\ frame[t].op \in {"write_record_with_buffer", "write_record"}
         /\ HasNewline(frame[t].record)) =>
            /\ frame[t].result = "InvalideRecordError"
            /\ file = frame[t].file0
            /\ buffer[frame[t].self] = frame[t].buffer0

\* C6: a construction whose mount point cannot be stat-ed fails with the
\* mount-not-found error, constructs no logger and leaves the file as it
\* was; the file changes in a construction only after the mount check
\* passed; and no step of the logger changes what is mounted.
C6_StateOK ==
    \A t \in Tasks :
        Returned(t, "__init__") =>
            /\ ~frame[t].stat0 =>
                   /\ frame[t].result = "SDNotMountedError"
                   /\ file = frame[t].file0
            /\ frame[t].result = "SDNotMountedError" => ~frame[t].stat0
            /\ file # frame[t].file0 => frame[t].stat0

C6_MountPrecondition ==
    /\ []C6_StateOK
    /\ [][(calls' # calls \/ pc' # pc \/ frame' # frame)
              => mounted' = mounted]_vars

C6_Witness ==
    \E t \in Tasks :
        /\ Returned(t, "__init__")
        /\ mounted
        /\ frame[t].mountpoint = "nosd"
        /\ ~frame[t].headers.is_none
        /\ frame[t].result = "SDNotMountedError"
        /\ ~file.exists

\* C7: a teardown with a non-empty buffer whose write succeeds appends the
\* pending records in buffer order, each ended by a newline, and empties
\* the buffer; so without failures every record submitted to the logger is
\* in the file after teardown (and they are all of what the file got when
\* nothing else wrote).
C7_TeardownFlush ==
    \A t \in Tasks :
        (Returned(t, "__del__") /\ frame[t].result = "ok") =>
            LET l == frame[t].self IN
            /\ buffer[l] = <<>>
            /\ frame[t].buffer0 # <<>> =>
                   file = [exists |-> TRUE,
                           data |-> frame[t].file0.data
                                    \o Flat(frame[t].buffer0)]
            /\ failures = 0 =>
                   IsSubseq(ReadLines(Flat(submitted[l])),
                            ReadLines(file.data))
            /\ OnlyBuffered(l) =>
                   file.data = base[l] \o Flat(submitted[l])

C7_Witness ==
    \E t \in Tasks :
        /\ Returned(t, "__del__")
        /\ frame[t].result = "ok"
        /\ frame[t].buffer0 = <<<<"a">>, <<"b">>>>
        /\ file.data = <<"h", ";", "g", NL, "a", NL, "b", NL>>

\* C8: write_record appends the record and one newline to the end of the
\* file and leaves the buffer as it was, whatever the buffer holds.
C8_ImmediateWrite ==
    \A t \in Tasks :
        Returned(t, "write_record") =>
            /\ buffer[frame[t].self] = frame[t].buffer0
            /\ frame[t].result = "ok" =>
                   file = [exists |-> TRUE,
                           data |-> frame[t].file0.data
                                    \o frame[t].record \o <<NL>>]

C8_Witness ==
    \E t \in Tasks :
        /\ Returned(t, "write_record")
        /\ frame[t].result = "ok"
        /\ frame[t].record = <<"b">>
        /\ frame[t].buffer0 = <<<<"a">>>>
        /\ buffer[frame[t].self] = <<<<"a">>>>

\* C9: a teardown on an empty buffer returns without changing the file or
\* the buffer, and every teardown leaves the buffer empty, so a second
\* teardown right after a first one is such a no-op.
C9_CloseIdempotent ==
    \A t \in Tasks :
        Returned(t, "__del__") =>
            /\ buffer[frame[t].self] = <<>>
            /\ frame[t].buffer0 = <<>> =>
                   /\ frame[t].result = "ok"
                   /\ file = frame[t].file0
                   /\ ~frame[t].flushed

C9_Witness ==
    \E t \in Tasks :
        /\ Returned(t, "__del__")
        /\ frame[t].closed0
        /\ frame[t].buffer0 = <<>>
        /\ submitted[frame[t].self] # <<>>
        /\ file.exists

\* C10: after a teardown of the logger no write_record_with_buffer or
\* write_record call on it adds a record to the buffer or to the file.
C10_ClosedIsTerminal ==
    \A t \in Tasks :
        (/\ frame[t].op \in {"write_record_with_buffer", "write_record"}
         /\ frame[t].closed0) =>
            /\ file = frame[t].file0
            /\ buffer[frame[t].self] = frame[t].buffer0
\* only l has opened the file, and after its construction only to flush
\* its buffer (storage failures allowed)
Sole(l) ==
    /\ alive[l]
    /\ writers \subseteq {<<l, "__init__">>, <<l, "flush">>}

NewlineFree(records) ==
    \A i \in 1..Len(records) : ~HasNewline(records[i])

\* after n buffered writes on a new logger of capacity c the file has got
\* c * (n div c) data lines and the buffer holds the last n mod c records;
\* a call that stays below the capacity leaves the file as it was and a
\* call that reaches it has flushed when it returns
WholeBlocks(l) ==
    LET c == buffer_size[l]
        n == Len(submitted[l])
    IN /\ Len(DataLines(l)) = c * (n \div c)
       /\ buffer[l] = Drop(submitted[l], n - (n % c))
       /\ \A t \in Tasks :
              (Returned(t, "write_record_with_buffer") /\ frame[t].self = l) =>
                  /\ ~frame[t].flushed => file = frame[t].file0
                  /\ Len(frame[t].buffer0) + 1 >= c =>
                         (frame[t].flushed /\ frame[t].result = "ok")

\* C11: buffered writes reach the file only in whole-capacity blocks: with
\* capacity c >= 1, no teardown, no failure and no write_record, after n
\* write_record_with_buffer calls the file holds c * floor(n / c) data lines
\* after the header and the buffer the last n mod c records.
C11_WholeCapacityBlocks ==
    \A l \in Loggers :
        (Idle /\ OnlyBuffered(l) /\ ~closed[l] /\ buffer_size[l] >= 1) =>
            WholeBlocks(l)

\* C11 for records without a newline: the same statement holds.
C11_NewlineFree ==
    \A l \in Loggers :
        (/\ Idle /\ OnlyBuffered(l) /\ ~closed[l] /\ buffer_size[l] >= 1
         /\ NewlineFree(submitted[l])) =>
            WholeBlocks(l)

C11_NewlineFreeReached ==
    /\ Idle /\ OnlyBuffered("L1") /\ ~closed["L1"]
    /\ buffer_size["L1"] = 2
    /\ submitted["L1"] = <<<<"a">>, <<"b">>, <<"a">>>>
\* the records of l that a flush is writing at this moment
InFlight(l) ==
    IF \E t \in Tasks : pc[t] = "write" /\ frame[t].self = l
    THEN frame[CHOOSE t \in Tasks : pc[t] = "write" /\ frame[t].self = l].pending
    ELSE <<>>

\* C12: no record is both pending and flushed, also after a failed flush:
\* the buffer is the tail of the submitted records, the records a flush is
\* writing come right before that tail and are no longer in the buffer, and
\* the text the file has got is what is left of the serialization of the
\* records before them, each at most once and in order.
C12_NeverPendingAndFlushed ==
    \A l \in Loggers :
        Sole(l) =>
            LET n == Len(submitted[l])
                b == Len(buffer[l])
                w == Len(InFlight(l))
            IN /\ b + w <= n
               /\ buffer[l] = Drop(submitted[l], n - b)
               /\ InFlight(l) = SubSeq(submitted[l], n - b - w + 1, n - b)
               /\ IsPrefix(base[l], file.data)
               /\ IsSubseq(Drop(file.data, Len(base[l])),
                           Flat(SubSeq(submitted[l], 1, n - b - w)))

C12_Witness ==
    /\ Idle
    /\ Sole("L1")
    /\ failures = 1
    /\ submitted["L1"] = <<<<"a">>, <<"b">>>>
    /\ buffer["L1"] = <<>>
    /\ Drop(file.data, Len(base["L1"])) = <<"a", "b", NL>>
\* C13: the file is append-only once it exists: every step of every logger,
\* constructions over the existing file included, leaves the old contents
\* as a prefix of the new ones (a truncating open happens only in a
\* construction that found no file).
C13_AppendOnly ==
    [][file.exists => (file'.exists /\ IsPrefix(file.data, file'.data))]_vars

C13_Witness ==
    \E t \in Tasks :
        /\ Returned(t, "__del__")
        /\ frame[t].file0.data = <<"h", ";", "g", NL, "b", NL>>
        /\ file.data = <<"h", ";", "g", NL, "b", NL, "a", NL>>
\* C14: storage failures are never swallowed: a write call in which the
\* open or the write failed ends with the I/O error, a write call that
\* returns normally has appended all of its data, and a failed write_record
\* leaves the buffer as it was.
C14_FailuresSurface ==
    \A t \in Tasks :
        (/\ pc[t] = "idle"
         /\ frame[t].op \in {"write_record_with_buffer", "write_record"}) =>
            /\ failures > frame[t].failures0 => frame[t].result = "OSError"
            /\ (frame[t].result = "ok" /\ frame[t].op = "write_record") =>
                   file = [exists |-> TRUE,
                           data |-> frame[t].file0.data
                                    \o frame[t].record \o <<NL>>]
            /\ (frame[t].result = "ok" /\ frame[t].flushed) =>
                   file = [exists |-> TRUE,
                           data |-> frame[t].file0.data
                                    \o Flat(frame[t].pending)]
            /\ (frame[t].result = "OSError" /\ frame[t].op = "write_record") =>
                   buffer[frame[t].self] = frame[t].buffer0

C14_Witness ==
    \E t \in Tasks :
        /\ Returned(t, "write_record_with_buffer")
        /\ frame[t].flushed
        /\ frame[t].result = "OSError"
        /\ frame[t].pending = <<<<"a">>, <<"b">>>>
        /\ file.data = frame[t].file0.data \o <<"a", NL>>
\* C15: file handles are scoped to one call: no handle is open between the
\* public operations (nor between the steps of a call outside its with
\* block), also after a call whose write failed on an open handle.
C15_NoHandleHeld == handles = 0

C15_Witness ==
    \E t \in Tasks :
        /\ Returned(t, "write_record")
        /\ frame[t].result = "OSError"
        /\ frame[t].record = <<"a", NL, "b">>
        /\ file.data = frame[t].file0.data \o <<"a", NL>>
        /\ <<frame[t].self, "write_record">> \in writers
        /\ handles = 0
\* the orders in which n things can be arranged
Perms(n) ==
    {p \in [1..n -> 1..n] : \A i, j \in 1..n : p[i] = p[j] => i = j}

\* C16: when the steps of two tasks' write_record_with_buffer calls on one
\* logger interleave, the buffer never holds more records than the capacity,
\* and once both calls have returned every submitted record is exactly once
\* in the file or the buffer.
C16_ConcurrentProducers ==
    /\ alive["L1"] => Len(buffer["L1"]) <= buffer_size["L1"]
    /\ (alive["L1"] /\ Idle) =>
           LET n == Len(submitted["L1"]) IN
           \E p \in Perms(n) :
               Drop(file.data, Len(base["L1"])) \o Flat(buffer["L1"])
                   = Flat([i \in 1..n |-> submitted["L1"][p[i]]])

\* C16, second part alone: no record is lost or written twice.
C16_ExactlyOnce ==
    (alive["L1"] /\ Idle) =>
        LET n == Len(submitted["L1"]) IN
        \E p \in Perms(n) :
            Drop(file.data, Len(base["L1"])) \o Flat(buffer["L1"])
                = Flat([i \in 1..n |-> submitted["L1"][p[i]]])
\* the buffered writes that were pending when the write at place d of the
\* log was made: the last entries[d].pending buffered writes before it
PendingAt(entries, d) ==
    {q \in 1..(d - 1) :
        /\ entries[q].kind = "buffered"
        /\ Cardinality({r \in q..(d - 1) : entries[r].kind = "buffered"})
               <= entries[d].pending}

\* p arranges the writes of the log as the claim says: each path in its
\* call order, a direct write before the buffered writes pending at it
MixedOrder(entries, p) ==
    /\ \A i, j \in 1..Len(entries) :
           (i < j /\ entries[p[i]].kind = entries[p[j]].kind) => p[i] < p[j]
    /\ \A i, j \in 1..Len(entries) :
           (entries[p[i]].kind = "direct"
            /\ p[j] \in PendingAt(entries, p[i])) => i < j

\* C17: after any mix of buffered and direct writes on one logger and a
\* teardown, without failures, the file has got every submitted record
\* exactly once, the buffered ones in call order, the direct ones in call
\* order, and each direct one before the buffered ones pending at its call.
C17_MixedPathsOrder ==
    \A t \in Tasks :
        (/\ Returned(t, "__del__")
         /\ frame[t].result = "ok"
         /\ failures = 0
         /\ writers \subseteq {<<frame[t].self, "__init__">>,
                               <<frame[t].self, "flush">>,
                               <<frame[t].self, "write_record">>}) =>
            LET l == frame[t].self
                entries == log[l]
            IN /\ IsPrefix(base[l], file.data)
               /\ \E p \in Perms(Len(entries)) :
                      /\ MixedOrder(entries, p)
                      /\ Drop(file.data, Len(base[l]))
                             = Flat([i \in 1..Len(entries) |->
                                         entries[p[i]].record])

C17_Witness ==
    \E t \in Tasks :
        /\ Returned(t, "__del__")
        /\ frame[t].result = "ok"
        /\ failures = 0
        /\ writers = {<<"L1", "flush">>, <<"L1", "write_record">>}
        /\ log["L1"] = <<[kind |-> "buffered", record |-> <<"a">>,
                          pending |-> 0],
                         [kind |-> "direct", record |-> <<"b">>,
                          pending |-> 1]>>
        /\ Drop(file.data, Len(base["L1"])) = <<"b", NL, "a", NL>>
\* C18: with capacity 1, 0 or below, write_record_with_buffer(record) does
\* to the file what write_record(record) does: it starts from an empty
\* buffer, flushes in the same call, has appended record and one newline
\* when it returns normally (and a part of that when the storage failed),
\* and leaves the buffer empty; the buffer is empty between all calls.
C18_DegenerateCapacity ==
    \A l \in Loggers :
        (alive[l] /\ buffer_size[l] <= 1) =>
            /\ Idle => buffer[l] = <<>>
            /\ \A t \in Tasks :
                   (Returned(t, "write_record_with_buffer")
                    /\ frame[t].self = l) =>
                       LET line == frame[t].record \o <<NL>> IN
                       /\ frame[t].buffer0 = <<>>
                       /\ frame[t].flushed
                       /\ IsPrefix(frame[t].file0.data, file.data)
                       /\ IsPrefix(Drop(file.data, Len(frame[t].file0.data)),
                                   line)
                       /\ frame[t].result = "ok" <=>
                              file = [exists |-> TRUE,
                                      data |-> frame[t].file0.data \o line]

C18_Witness ==
    \E t \in Tasks :
        /\ Returned(t, "write_record_with_buffer")
        /\ buffer_size[frame[t].self] = -1
        /\ frame[t].record = <<"b">>
        /\ frame[t].result = "ok"
        /\ frame[t].file0.data = <<"h", ";", "g", NL, "a", NL>>
        /\ file.data = <<"h", ";", "g", NL, "a", NL, "b", NL>>
\* the records of the log of l, in call order
Logged(l) == [i \in 1..Len(log[l]) |-> log[l][i].record]

\* the flush routine is entered with a record in the buffer and writes no
\* bare newline; while l is the only writer and no storage operation has
\* failed, the file has got one data line for each record written to it
FlushWritesRecords(l) ==
    /\ \A t \in Tasks :
           /\ (pc[t] = "serialize" /\ frame[t].self = l) => buffer[l] # <<>>
           /\ (pc[t] = "write" /\ frame[t].self = l) =>
                  (frame[t].pending # <<>> /\ frame[t].serialized # <<NL>>)
    /\ (/\ Idle /\ alive[l] /\ failures = 0
        /\ writers \subseteq {<<l, "__init__">>, <<l, "flush">>,
                              <<l, "write_record">>}) =>
           /\ IsPrefix(base[l], file.data)
           /\ Len(DataLines(l)) = Len(log[l]) - Len(buffer[l])

\* C19: a flush never runs on an empty buffer: whenever the flush routine is
\* entered the buffer holds a record, no flush appends a bare newline, and
\* the number of data lines in the file equals the number of records
\* written to it.
C19_FlushNeverEmpty ==
    \A l \in Loggers : FlushWritesRecords(l)

\* C19 for records without a newline: the same statement holds.
C19_NewlineFree ==
    \A l \in Loggers : NewlineFree(Logged(l)) => FlushWritesRecords(l)

C19_NewlineFreeReached ==
    /\ Idle /\ alive["L1"] /\ failures = 0 /\ closed["L1"]
    /\ writers = {<<"L1", "__init__">>, <<"L1", "flush">>}
    /\ Logged("L1") = <<<<"a">>, <<"b">>>>
    /\ buffer["L1"] = <<>>
====
